---- MODULE Spec2Model ----
(***************************************************************************)
(* Model of the health-check core of ServiceCloudVoiceLambdas:             *)
(*   core/multithreading.py  MultiThreadedValidator                        *)
(*   utils/placeholder_utils.py  the placeholder resolver                  *)
(*   core/reporting.py  generate_enhanced_report, generate_csv_report      *)
(* One call of validate_all_resources_parallel is a state machine: the     *)
(* calling thread (constructor of the pool, submit loop, as_completed      *)
(* loop, exit of the with-block) interleaved with the pool's workers.      *)
(* The resolver and the report generators have a specification of their    *)
(* own each, which draws the arguments from bounded sets and applies the   *)
(* function (ResolverSpec, ReportSpec).                                    *)
(* ReuseSpec calls the same validator instance again, HandlerSpec hands the*)
(* run's lists to generate_enhanced_report as lambda_handler does, and     *)
(* PuritySpec calls the resolver and the report generator twice while the  *)
(* clock, the environment and the stream discovery change.                 *)
(***************************************************************************)
EXTENDS Bags, FiniteSets, Integers, Sequences, TLC

VARIABLES
    max_threads,   \* health_input.max_threads
    pc,            \* position of the calling thread
    submitted,     \* number of executor.submit calls made so far
    tstate,        \* per task: "unsubmitted", "queued", "running", "finished"
    outcome,       \* per task: what its future holds once it has finished
    calls,         \* per task: how many times its task_func was invoked
    num_threads,   \* worker threads the pool has started
    idle,          \* the pool's idle semaphore
    pending,       \* as_completed: futures not yet yielded and not in a batch
    yieldq,        \* as_completed: the batch of finished futures being yielded
    waiterq,       \* as_completed: waiter.finished_futures, in completion order
    full_report,   \* the local list full_report
    errors,        \* self.errors
    call,          \* resolver: the function under call, "none" outside ResolverSpec
    option1,       \* resolve_conditional_options: first option
    option2,       \* resolve_conditional_options: second option
    data,          \* replace_placeholders: the document
    replacements,  \* the substitution context
    discovery,     \* what discover_connect_streams does when it is called
    resolved,      \* what the resolver call returned or raised
    report_call,   \* reporting: position, "none" outside ReportSpec
    report_input,  \* generate_enhanced_report: full_report and errors arguments
    enhanced_report, \* what generate_enhanced_report returned
    csv_report,    \* what generate_csv_report returned
    finished_order, \* the tasks that have finished, in the order they finished
    run,           \* which call of validate_all_resources_parallel on the instance this is
    clock,         \* what datetime.datetime.now reads
    debug,         \* what is_debug_enabled reads from the environment
    first_result   \* what the first of two equal calls returned

vars == <<max_threads, pc, submitted, tstate, outcome, calls, num_threads, idle,
          pending, yieldq, waiterq, full_report, errors>>

resolver_vars == <<call, option1, option2, data, replacements, discovery, resolved>>

report_vars == <<report_call, report_input, enhanced_report, csv_report>>

run_vars == <<finished_order, run>>

env_vars == <<clock, debug, first_result>>

\* The resolver and the report generators before they are called.
ResolverIdle ==
    /\ call = "none"
    /\ option1 = <<>>
    /\ option2 = <<>>
    /\ data = <<>>
    /\ replacements = <<>>
    /\ discovery = "none"
    /\ resolved = <<>>

ReportIdle ==
    /\ report_call = "none"
    /\ report_input = <<>>
    /\ enhanced_report = <<>>
    /\ csv_report = <<>>

\* The first call on a fresh instance, no task finished yet.
RunIdle ==
    /\ finished_order = <<>>
    /\ run = 1

\* The environment at rest: the clock at its origin, LOG_LEVEL unset.
EnvIdle ==
    /\ clock = 0
    /\ debug = FALSE
    /\ first_result = <<>>

----------------------------------------------------------------------------
\* Bounds of the model.

NumTasks == 2      \* the first NumTasks tasks of the registry are registered
MaxThreads == 3    \* max_threads ranges over -1 .. MaxThreads
MaxItems == 2      \* a returned report holds at most MaxItems items
MaxReports == 2    \* generate_enhanced_report is given at most MaxReports reports
MaxErrors == 2     \* and at most MaxErrors error messages
MaxCalls == 2      \* validate_all_resources_parallel is called at most MaxCalls times
MaxClock == 2      \* the clock is read at most at MaxClock + 1 different times

----------------------------------------------------------------------------
\* The registry (validation_tasks) and what its validators produce.

TaskNames ==
    <<"roles", "lambdas", "layers", "policies", "alarms", "s3", "kinesis",
      "kms_aliases", "triggers", "event_mappings", "lambda_permissions">>

ResourceTypes ==
    <<"IAM Role", "Lambda Function", "Lambda Layer", "IAM Managed Policy",
      "CloudWatch Alarm", "S3 Bucket", "Kinesis Stream", "KMS Alias",
      "EventBridge Rule", "Event Source Mapping", "Lambda Permission">>

validation_tasks == SubSeq(TaskNames, 1, NumTasks)

Tasks == 1..Len(validation_tasks)

\* The statuses the validators put in an item: healthy, warning, failure.
StatusCodes == <<200, 500, 300>>

StatusMessages == <<"healthy", "not found", "degraded">>

\* The item validator i reports for its k-th declared resource; the statuses
\* rotate so that every validator's reports mix the three kinds.
HealthCheckItem(i, k) ==
    LET s == ((i + k - 2) % Len(StatusCodes)) + 1
    IN  [ResourceName |-> validation_tasks[i] \o "-" \o ToString(k),
         status |-> StatusCodes[s],
         message |-> StatusMessages[s]]

\* A validator's return value: {"ResourceType": ..., "DetailedHealthCheck": [...]}.
ValidatorReport(i, n) ==
    [ResourceType |-> ResourceTypes[i],
     DetailedHealthCheck |-> [k \in 1..n |-> HealthCheckItem(i, k)]]

EmptyReport == [ResourceType |-> "", DetailedHealthCheck |-> <<>>]

NoOutcome == [kind |-> "none", error |-> "", result |-> EmptyReport]

\* The exceptions a validator lets escape (subclasses of Exception: boto3
\* errors, KeyError on a malformed declaration, ...), by their str().
ErrorTexts == {"boom"}

\* What a task leaves in its future: a returned report or a raised exception.
Outcomes(i) ==
    {[kind |-> "return", error |-> "", result |-> ValidatorReport(i, n)] :
        n \in 0..MaxItems}
    \cup
    {[kind |-> "raise", error |-> e, result |-> EmptyReport] : e \in ErrorTexts}

----------------------------------------------------------------------------
\* The body of the collecting loop (lines 82-113), as functions of the lists.

\* error_msg = f"Failed to validate {task_name}: {str(e)}"
ErrorMsg(task_name, e) == "Failed to validate " \o task_name \o ": " \o e

\* Mutant: the failed result loses the "Failed " marker of its ResourceType.
FailedReportUnmarked(task_name, error_msg) ==
    [ResourceType |-> task_name,
     DetailedHealthCheck |->
        <<[ResourceName |-> task_name, status |-> 500, message |-> error_msg]>>]

\* The failed validation result appended by the except branch.
FailedReport(task_name, error_msg) ==
    [ResourceType |-> "Failed " \o task_name,
     DetailedHealthCheck |->
        <<[ResourceName |-> task_name, status |-> 500, message |-> error_msg]>>]

\* f"{health_check.get('ResourceName', 'Unknown')}: {health_check.get('message', 'Unknown error')}"
ItemError(health_check) ==
    health_check.ResourceName \o ": " \o health_check.message

\* Mutant: only statuses >= 400 count as errors.
IsErrorFrom400(health_check) == health_check.status >= 400

\* if health_check.get("status") != 200
IsError(health_check) == health_check.status # 200

\* Mutant: only the items that failed (status >= 400) are recorded as errors.
TrackErrorsFailuresOnly(errs, health_checks) ==
    LET failed == SelectSeq(health_checks, LAMBDA hc : hc.status >= 400)
    IN  errs \o [k \in 1..Len(failed) |-> ItemError(failed[k])]

\* for health_check in health_checks: ... self.errors.append(...)
RECURSIVE TrackErrors(_, _)
TrackErrors(errs, health_checks) ==
    IF health_checks = <<>> THEN errs
    ELSE TrackErrors(
            IF IsError(Head(health_checks))
                THEN Append(errs, ItemError(Head(health_checks)))
                ELSE errs,
            Tail(health_checks))

\* The try branch: the task returned result.
OnResult(report, errs, result) ==
    [full_report |-> Append(report, result),
     errors |-> TrackErrors(errs, result.DetailedHealthCheck),
     raised |-> FALSE]

\* Mutant: the except branch records the error but adds no failed result.
OnExceptionNoReport(report, errs, task_name, e) ==
    [full_report |-> report,
     errors |-> Append(errs, ErrorMsg(task_name, e)),
     raised |-> FALSE]

\* Mutant: the except branch records the error and re-raises it.
OnExceptionReraise(report, errs, task_name, e) ==
    [full_report |-> report,
     errors |-> Append(errs, ErrorMsg(task_name, e)),
     raised |-> TRUE]

\* The except branch: future.result() raised e, an Exception.
OnException(report, errs, task_name, e) ==
    [full_report |-> Append(report, FailedReport(task_name, ErrorMsg(task_name, e))),
     errors |-> Append(errs, ErrorMsg(task_name, e)),
     raised |-> FALSE]

\* One iteration of the loop for a completed future holding out.
ProcessCompleted(report, errs, task_name, out) ==
    IF out.kind = "return"
        THEN OnResult(report, errs, out.result)
        ELSE OnException(report, errs, task_name, out.error)

----------------------------------------------------------------------------
\* The worker pool (ThreadPoolExecutor) as the call uses it.

Running == {i \in Tasks : tstate[i] = "running"}

Queued == {i \in Tasks : tstate[i] = "queued"}

\* The pool's work queue is FIFO and tasks are submitted in registry order.
QueueHead == CHOOSE i \in Queued : \A j \in Queued : i <= j

\* Mutant: only a negative max_workers is rejected.
PoolRejectsNegative(max_workers) == max_workers < 0

\* ThreadPoolExecutor(max_workers=...) rejects max_workers <= 0.
PoolRejects(max_workers) == max_workers <= 0

\* Mutant: the pool stops one worker short of max_workers.
SpawnsThreadOneShort(threads, idle_count, max_workers) ==
    idle_count = 0 /\ threads + 1 < max_workers

\* Mutant: the pool starts a worker for every submit that finds none idle.
SpawnsThreadUnbounded(threads, idle_count, max_workers) ==
    idle_count = 0

\* submit() starts a worker when none is idle and the pool is not full.
SpawnsThread(threads, idle_count, max_workers) ==
    idle_count = 0 /\ threads < max_workers

\* All orderings of a set, as sequences: list(set) has no defined order.
Orderings(S) ==
    {q \in [1..Cardinality(S) -> S] : \A a, b \in 1..Cardinality(S) : a # b => q[a] # q[b]}

ToSet(q) == {q[k] : k \in 1..Len(q)}

----------------------------------------------------------------------------
Init ==
    /\ max_threads \in (-1)..MaxThreads
    /\ pc = "init"
    /\ submitted = 0
    /\ tstate = [i \in Tasks |-> "unsubmitted"]
    /\ outcome = [i \in Tasks |-> NoOutcome]
    /\ calls = [i \in Tasks |-> 0]
    /\ num_threads = 0
    /\ idle = 0
    /\ pending = {}
    /\ yieldq = <<>>
    /\ waiterq = <<>>
    /\ full_report = <<>>
    /\ errors = <<>>
    /\ ResolverIdle
    /\ ReportIdle
    /\ RunIdle
    /\ EnvIdle

\* with ThreadPoolExecutor(max_workers=self.health_input.max_threads) as executor
EnterPool ==
    /\ pc = "init"
    /\ pc' = IF PoolRejects(max_threads) THEN "raised" ELSE "submit"
    /\ UNCHANGED <<max_threads, submitted, tstate, outcome, calls, num_threads, idle,
                   pending, yieldq, waiterq, full_report, errors>>
    /\ UNCHANGED <<resolver_vars, report_vars, run_vars, env_vars>>

\* executor.submit(task_func) for the next task of validation_tasks
Submit ==
    /\ pc = "submit"
    /\ submitted < Len(validation_tasks)
    /\ submitted' = submitted + 1
    /\ tstate' = [tstate EXCEPT ![submitted + 1] = "queued"]
    /\ IF idle > 0
          THEN idle' = idle - 1 /\ UNCHANGED num_threads
          ELSE /\ UNCHANGED idle
               /\ num_threads' = IF SpawnsThread(num_threads, idle, max_threads)
                                    THEN num_threads + 1 ELSE num_threads
    /\ UNCHANGED <<max_threads, pc, outcome, calls, pending, yieldq, waiterq,
                   full_report, errors>>
    /\ UNCHANGED <<resolver_vars, report_vars, run_vars, env_vars>>

\* A free worker takes the head of the work queue and invokes the task.
TaskStart(i) ==
    /\ Queued # {}
    /\ i = QueueHead
    /\ Cardinality(Running) < num_threads
    /\ tstate' = [tstate EXCEPT ![i] = "running"]
    /\ calls' = [calls EXCEPT ![i] = @ + 1]
    /\ UNCHANGED <<max_threads, pc, submitted, outcome, num_threads, idle, pending,
                   yieldq, waiterq, full_report, errors>>
    /\ UNCHANGED <<resolver_vars, report_vars, run_vars, env_vars>>

\* Mutant: the task body records its own errors in self.errors, from its
\* worker thread, before it returns.
TaskFinishRecords(i, out) ==
    /\ tstate[i] = "running"
    /\ tstate' = [tstate EXCEPT ![i] = "finished"]
    /\ outcome' = [outcome EXCEPT ![i] = out]
    /\ idle' = IF Queued = {} THEN idle + 1 ELSE idle
    /\ waiterq' = IF pc = "collect" /\ i \in pending THEN Append(waiterq, i) ELSE waiterq
    /\ finished_order' = Append(finished_order, i)
    /\ errors' = IF out.kind = "return"
                    THEN TrackErrors(errors, out.result.DetailedHealthCheck)
                    ELSE errors
    /\ UNCHANGED <<max_threads, pc, submitted, calls, num_threads, pending, yieldq,
                   full_report, run>>
    /\ UNCHANGED <<resolver_vars, report_vars, env_vars>>

\* The task returns or raises; the worker stores that in the future, which
\* notifies the as_completed waiter if one is installed on it. A worker that
\* then finds the work queue empty releases the idle semaphore.
TaskFinish(i, out) ==
    /\ tstate[i] = "running"
    /\ tstate' = [tstate EXCEPT ![i] = "finished"]
    /\ outcome' = [outcome EXCEPT ![i] = out]
    /\ idle' = IF Queued = {} THEN idle + 1 ELSE idle
    /\ waiterq' = IF pc = "collect" /\ i \in pending THEN Append(waiterq, i) ELSE waiterq
    /\ finished_order' = Append(finished_order, i)
    /\ UNCHANGED <<max_threads, pc, submitted, calls, num_threads, pending, yieldq,
                   full_report, errors, run>>
    /\ UNCHANGED <<resolver_vars, report_vars, env_vars>>

\* as_completed(future_to_task) starts: the futures already finished form the
\* first batch, the others are pending and get the waiter.
AsCompletedStart ==
    /\ pc = "submit"
    /\ submitted = Len(validation_tasks)
    /\ LET finished == {i \in Tasks : tstate[i] = "finished"}
       IN  /\ yieldq' \in Orderings(finished)
           /\ pending' = Tasks \ finished
    /\ waiterq' = <<>>
    /\ pc' = "collect"
    /\ UNCHANGED <<max_threads, submitted, tstate, outcome, calls, num_threads, idle,
                   full_report, errors>>
    /\ UNCHANGED <<resolver_vars, report_vars, run_vars, env_vars>>

\* Mutant: the collector takes only the latest completion and forgets the rest.
NextBatchLossy ==
    /\ pc = "collect"
    /\ yieldq = <<>>
    /\ pending # {}
    /\ waiterq # <<>>
    /\ yieldq' = <<waiterq[Len(waiterq)]>>
    /\ waiterq' = <<>>
    /\ pending' = pending \ ToSet(waiterq)
    /\ UNCHANGED <<max_threads, pc, submitted, tstate, outcome, calls, num_threads,
                   idle, full_report, errors>>
    /\ UNCHANGED <<resolver_vars, report_vars, run_vars, env_vars>>

\* as_completed waits for the waiter's event and takes what has finished since.
NextBatch ==
    /\ pc = "collect"
    /\ yieldq = <<>>
    /\ pending # {}
    /\ waiterq # <<>>
    /\ yieldq' = waiterq
    /\ waiterq' = <<>>
    /\ pending' = pending \ ToSet(waiterq)
    /\ UNCHANGED <<max_threads, pc, submitted, tstate, outcome, calls, num_threads,
                   idle, full_report, errors>>
    /\ UNCHANGED <<resolver_vars, report_vars, run_vars, env_vars>>

\* Mutant: a task whose future holds an exception is put back on the queue.
CollectRetry ==
    /\ pc = "collect"
    /\ yieldq # <<>>
    /\ LET i == Head(yieldq)
           r == ProcessCompleted(full_report, errors, validation_tasks[i], outcome[i])
       IN  /\ full_report' = r.full_report
           /\ errors' = r.errors
           /\ pc' = IF r.raised THEN "raised" ELSE pc
           /\ tstate' = IF outcome[i].kind = "raise"
                           THEN [tstate EXCEPT ![i] = "queued"] ELSE tstate
    /\ yieldq' = Tail(yieldq)
    /\ UNCHANGED <<max_threads, submitted, outcome, calls, num_threads, idle,
                   pending, waiterq>>
    /\ UNCHANGED <<resolver_vars, report_vars, run_vars, env_vars>>

\* One iteration of "for future in as_completed(...)": lines 82-113.
Collect ==
    /\ pc = "collect"
    /\ yieldq # <<>>
    /\ LET i == Head(yieldq)
           r == ProcessCompleted(full_report, errors, validation_tasks[i], outcome[i])
       IN  /\ full_report' = r.full_report
           /\ errors' = r.errors
           /\ pc' = IF r.raised THEN "raised" ELSE pc
    /\ yieldq' = Tail(yieldq)
    /\ UNCHANGED <<max_threads, submitted, tstate, outcome, calls, num_threads, idle,
                   pending, waiterq>>
    /\ UNCHANGED <<resolver_vars, report_vars, run_vars, env_vars>>

\* Mutant: the call returns once the current batch is drained, without
\* waiting for the pending futures or joining the workers.
ReturnEarly ==
    /\ pc = "collect"
    /\ yieldq = <<>>
    /\ pc' = "returned"
    /\ UNCHANGED <<max_threads, submitted, tstate, outcome, calls, num_threads, idle,
                   pending, yieldq, waiterq, full_report, errors>>
    /\ UNCHANGED <<resolver_vars, report_vars, run_vars, env_vars>>

\* The loop ends, the with-block exits (shutdown(wait=True) joins the workers)
\* and full_report is returned.
Return ==
    /\ pc = "collect"
    /\ yieldq = <<>>
    /\ pending = {}
    /\ \A i \in Tasks : tstate[i] = "finished"
    /\ pc' = "returned"
    /\ UNCHANGED <<max_threads, submitted, tstate, outcome, calls, num_threads, idle,
                   pending, yieldq, waiterq, full_report, errors>>
    /\ UNCHANGED <<resolver_vars, report_vars, run_vars, env_vars>>

Next ==
    \/ EnterPool
    \/ Submit
    \/ \E i \in Tasks : TaskStart(i)
    \/ \E i \in Tasks : \E out \in Outcomes(i) : TaskFinish(i, out)
    \/ AsCompletedStart
    \/ NextBatch
    \/ Collect
    \/ Return

Spec == Init /\ [][Next]_vars

\* The scheduling the claims about termination assume: the calling thread and
\* the workers keep running, and every invoked task returns or raises.
FairSpec ==
    /\ Spec
    /\ WF_vars(EnterPool)
    /\ WF_vars(Submit)
    /\ WF_vars(AsCompletedStart)
    /\ WF_vars(NextBatch)
    /\ WF_vars(Collect)
    /\ WF_vars(Return)
    /\ \A i \in Tasks : WF_vars(TaskStart(i))
    /\ \A i \in Tasks : WF_vars(\E out \in Outcomes(i) : TaskFinish(i, out))

----------------------------------------------------------------------------
\* The same MultiThreadedValidator called again: the call makes a new pool, a
\* new future_to_task and a new local full_report; self.errors is the list
\* __init__ made.
CallAgain ==
    /\ pc = "returned"
    /\ run < MaxCalls
    /\ run' = run + 1
    /\ pc' = "init"
    /\ submitted' = 0
    /\ tstate' = [i \in Tasks |-> "unsubmitted"]
    /\ outcome' = [i \in Tasks |-> NoOutcome]
    /\ calls' = [i \in Tasks |-> 0]
    /\ num_threads' = 0
    /\ idle' = 0
    /\ pending' = {}
    /\ yieldq' = <<>>
    /\ waiterq' = <<>>
    /\ full_report' = <<>>
    /\ finished_order' = <<>>
    /\ UNCHANGED <<max_threads, errors>>
    /\ UNCHANGED <<resolver_vars, report_vars, env_vars>>

ReuseNext == Next \/ CallAgain

ReuseSpec == Init /\ [][ReuseNext]_<<vars, run_vars>>

----------------------------------------------------------------------------
\* Vocabulary of the claims.

Raised(i) == outcome[i].kind = "raise"

Returned(i) == outcome[i].kind = "return"

CountIn(q, x) == Cardinality({k \in 1..Len(q) : q[k] = x})

\* The entries of the report list that belong to task i.
EntriesOf(i) ==
    {k \in 1..Len(full_report) :
        full_report[k].ResourceType \in
            {ResourceTypes[i], "Failed " \o validation_tasks[i]}}

SpecFailedReport(n, e) ==
    [ResourceType |-> "Failed " \o n,
     DetailedHealthCheck |->
        <<[ResourceName |-> n, status |-> 500,
           message |-> "Failed to validate " \o n \o ": " \o e]>>]

SpecFailedError(n, e) == "Failed to validate " \o n \o ": " \o e

OnlyHealthyItems(i) ==
    /\ Returned(i)
    /\ \A k \in 1..Len(outcome[i].result.DetailedHealthCheck) :
           outcome[i].result.DetailedHealthCheck[k].status = 200

\* C2: a task n that raised e has exactly one report "Failed n" with the single
\* status-500 item and exactly one error entry "Failed to validate n: e"; every
\* other task ran and has its own report in the result; with exactly one
\* raising task and only status-200 items elsewhere the error list is that
\* one string.
C2_FailureIsolation ==
    pc = "returned" =>
        /\ \A i \in Tasks : Raised(i) =>
              /\ CountIn(full_report,
                         SpecFailedReport(validation_tasks[i], outcome[i].error)) = 1
              /\ Cardinality(EntriesOf(i)) = 1
              /\ CountIn(errors,
                         SpecFailedError(validation_tasks[i], outcome[i].error)) = 1
              /\ \A j \in Tasks \ {i} :
                    /\ calls[j] = 1
                    /\ Returned(j) => CountIn(full_report, outcome[j].result) = 1
                    /\ Raised(j) =>
                          CountIn(full_report,
                                  SpecFailedReport(validation_tasks[j], outcome[j].error)) = 1
        /\ \A i \in Tasks :
              (Raised(i) /\ \A j \in Tasks \ {i} : OnlyHealthyItems(j)) =>
                  errors = <<SpecFailedError(validation_tasks[i], outcome[i].error)>>

C2_Witness ==
    /\ pc = "returned"
    /\ \E i \in Tasks :
          /\ Raised(i)
          /\ \A j \in Tasks \ {i} : OnlyHealthyItems(j)
          /\ \E j \in Tasks \ {i} : outcome[j].result.DetailedHealthCheck # <<>>

\* C3: the call raises to its caller only before any task is scheduled; once a
\* task has been submitted, whatever the tasks raise, the call does not raise.
C3_NoTaskErrorEscapes ==
    pc = "raised" =>
        /\ submitted = 0
        /\ \A i \in Tasks : tstate[i] = "unsubmitted" /\ calls[i] = 0

C3_Witness ==
    /\ pc = "returned"
    /\ \A i \in Tasks : Raised(i)

\* The error entries the spec prescribes for a returned report.
NotSuccess(hc) == hc.status # 200

SpecItemErrors(result) ==
    LET failing == SelectSeq(result.DetailedHealthCheck, NotSuccess)
    IN  [k \in 1..Len(failing) |->
            failing[k].ResourceName \o ": " \o failing[k].message]

\* C4: collecting a task that returned a report appends to the error list
\* exactly one entry "{ResourceName}: {message}" per item whose status is not
\* 200, and nothing for an item whose status is 200.
C4_ErrorAccumulation ==
    [][(/\ pc = "collect"
        /\ yieldq # <<>>
        /\ yieldq' = Tail(yieldq)
        /\ Returned(Head(yieldq)))
       => errors' = errors \o SpecItemErrors(outcome[Head(yieldq)].result)]_vars

HasStatus(i, code) ==
    /\ Returned(i)
    /\ \E k \in 1..Len(outcome[i].result.DetailedHealthCheck) :
           outcome[i].result.DetailedHealthCheck[k].status = code

C4_Witness ==
    /\ pc = "returned"
    /\ \E i \in Tasks : HasStatus(i, 200) /\ HasStatus(i, 500)
    /\ \E i \in Tasks : HasStatus(i, 300)

\* What the outcomes alone determine: each task's report and error strings.
SpecReport(i) ==
    IF Raised(i) THEN SpecFailedReport(validation_tasks[i], outcome[i].error)
    ELSE outcome[i].result

SpecErrors(i) ==
    IF Raised(i) THEN <<SpecFailedError(validation_tasks[i], outcome[i].error)>>
    ELSE SpecItemErrors(outcome[i].result)

RECURSIVE SpecAllErrors(_)
SpecAllErrors(n) ==
    IF n = 0 THEN <<>> ELSE SpecAllErrors(n - 1) \o SpecErrors(n)

SameMultiset(p, q) ==
    /\ Len(p) = Len(q)
    /\ \A k \in 1..Len(p) : CountIn(p, p[k]) = CountIn(q, p[k])

\* C5: the returned set of reports and the multiset of error strings are
\* functions of the tasks' outcomes alone: no interleaving and no max_threads
\* changes them.
C5_InterleavingIndependence ==
    pc = "returned" =>
        /\ {full_report[k] : k \in 1..Len(full_report)} = {SpecReport(i) : i \in Tasks}
        /\ SameMultiset(errors, SpecAllErrors(Len(validation_tasks)))

\* A run with two workers whose reports come back out of registry order.
C5_Witness ==
    /\ pc = "returned"
    /\ max_threads = 2
    /\ Len(errors) >= 2
    /\ \E a, b \in 1..Len(full_report) :
          /\ a < b
          /\ a \in EntriesOf(2)
          /\ b \in EntriesOf(1)

\* C6: when the call returns every registered task has finished executing:
\* none is running, queued or unsubmitted.
C6_NoEarlyReturn ==
    pc = "returned" =>
        \A i \in Tasks : tstate[i] = "finished" /\ outcome[i] # NoOutcome

C6_Witness ==
    /\ pc = "returned"
    /\ max_threads = 1
    /\ \A i \in Tasks : tstate[i] = "finished"

\* C7: with max_threads >= 1, fewer threads than tasks included, the call
\* eventually returns a complete report list.
C7_Termination ==
    (max_threads >= 1) ~>
        (pc = "returned" /\ Len(full_report) = Len(validation_tasks))

C7_Witness ==
    /\ pc = "returned"
    /\ max_threads >= 1
    /\ max_threads < Len(validation_tasks)
    /\ Len(full_report) = Len(validation_tasks)

\* C8: at every moment at most max_threads tasks are executing.
C8_BoundedParallelism ==
    Cardinality(Running) <= (IF max_threads > 0 THEN max_threads ELSE 0)

C8_Witness ==
    /\ max_threads >= 1
    /\ Cardinality(Running) = max_threads
    /\ Queued # {}

\* C9: no task is invoked more than once, a finished task was invoked exactly
\* once, and at return every task was invoked exactly once and a task that
\* raised is recorded exactly once.
C9_NoRetries ==
    /\ \A i \in Tasks : calls[i] <= 1
    /\ \A i \in Tasks : tstate[i] = "finished" => calls[i] = 1
    /\ pc = "returned" =>
          \A i \in Tasks : calls[i] = 1 /\ Cardinality(EntriesOf(i)) = 1

C9_Witness ==
    /\ pc = "returned"
    /\ \E i \in Tasks : Raised(i) /\ calls[i] = 1

\* C10: with max_threads 0 or negative the call raises before any task is
\* scheduled or invoked, with no report and no error entry.
C10_ConfigErrorFailsFast ==
    max_threads <= 0 =>
        /\ pc \in {"init", "raised"}
        /\ submitted = 0
        /\ \A i \in Tasks : tstate[i] = "unsubmitted" /\ calls[i] = 0
        /\ full_report = <<>>
        /\ errors = <<>>

C10_Witness ==
    /\ pc = "raised"
    /\ max_threads = 0

\* the error strings of the tasks of q, task after task
RECURSIVE SpecErrorsInOrder(_)
SpecErrorsInOrder(q) ==
    IF q = <<>> THEN <<>> ELSE SpecErrors(Head(q)) \o SpecErrorsInOrder(Tail(q))

\* the tasks in the order of their entries in the report list
ReportOrder ==
    [k \in 1..Len(full_report) |-> CHOOSE i \in Tasks : k \in EntriesOf(i)]

\* C24: the report list and the error list change only in a step of the
\* collecting loop of the calling thread, which appends the report and the
\* error strings of one completed task; no step of a task body writes them,
\* so the error list is always the error strings of the collected tasks,
\* task after task in report order, never interleaved.
C24_SerialCollector ==
    /\ [][(full_report' # full_report \/ errors' # errors) =>
             /\ pc = "collect"
             /\ yieldq # <<>>
             /\ yieldq' = Tail(yieldq)
             /\ full_report' = Append(full_report, SpecReport(Head(yieldq)))
             /\ errors' = errors \o SpecErrors(Head(yieldq))]_vars
    /\ [](errors = SpecErrorsInOrder(ReportOrder))

\* two workers, every task with error strings of its own, one of them raised
C24_Witness ==
    /\ pc = "returned"
    /\ max_threads >= 2
    /\ \A i \in Tasks : SpecErrors(i) # <<>>
    /\ \E i \in Tasks : Raised(i)
    /\ \E i \in Tasks : Returned(i) /\ Len(SpecErrors(i)) >= 2

\* C25: for any two tasks A and B, if A finished before B then A's entry
\* precedes B's entry in the returned report list and A's error strings
\* precede B's in the error list.
C25_CompletionOrder ==
    pc = "returned" =>
        /\ ReportOrder = finished_order
        /\ errors = SpecErrorsInOrder(finished_order)

\* C26: after any call of validate_all_resources_parallel, a second call on
\* the same instance included, the number of entries of the error list is the
\* number of tasks that raised in that call plus the number of non-200 items
\* in the reports that call's tasks returned.
C26_ErrorsOfThisCall ==
    pc = "returned" =>
        Len(errors) =
            Cardinality({i \in Tasks : Raised(i)})
                + Cardinality({x \in Tasks \X (1..MaxItems) :
                      /\ Returned(x[1])
                      /\ x[2] <= Len(outcome[x[1]].result.DetailedHealthCheck)
                      /\ outcome[x[1]].result.DetailedHealthCheck[x[2]].status # 200})

----------------------------------------------------------------------------
\* utils/placeholder_utils.py.  A string is a sequence of atoms.  The atoms
\* "$", "{", "}", "|", "-" and " " are the characters the resolver's patterns
\* tell apart, "\\q" is a backslash followed by the letter q, and every other
\* atom is a run of other characters that occurs whole: no atom ends or
\* begins inside another, so matching atom by atom is matching character by
\* character.

Placeholder(name) == <<"$", "{", name, "}">>

\* s[i:].startswith(pat)
Occurs(s, pat, i) ==
    /\ i + Len(pat) - 1 <= Len(s)
    /\ SubSeq(s, i, i + Len(pat) - 1) = pat

\* pat in s
Contains(s, pat) == \E i \in 1..Len(s) : Occurs(s, pat, i)

\* s.startswith('-')
StartsWithDash(s) == s # <<>> /\ Head(s) = "-"

\* s.replace(old, new), and pattern.sub(new, s) for a pattern without
\* operators: the occurrences of old from the left, none overlapping
RECURSIVE Replace(_, _, _)
Replace(s, old, new) ==
    IF s = <<>> THEN <<>>
    ELSE IF Occurs(s, old, 1)
         THEN new \o Replace(SubSeq(s, Len(old) + 1, Len(s)), old, new)
         ELSE <<Head(s)>> \o Replace(Tail(s), old, new)

\* PLACEHOLDER_RE = \$\{([^}]+)\} matched at the start of s: the index of the
\* closing brace, 0 when there is no match there
PLACEHOLDER_RE(s) ==
    IF /\ Len(s) >= 4
       /\ s[1] = "$"
       /\ s[2] = "{"
       /\ s[3] # "}"
       /\ \E j \in 4..Len(s) : s[j] = "}"
    THEN CHOOSE j \in 4..Len(s) : s[j] = "}" /\ \A k \in 4..(j - 1) : s[k] # "}"
    ELSE 0

\* PLACEHOLDER_RE.search(s)
HasPlaceholder(s) == \E i \in 1..Len(s) : PLACEHOLDER_RE(SubSeq(s, i, Len(s))) > 0

\* replacements.get(key) read for its truth value: None and "" are both falsy
Get(r, key) == IF key \in DOMAIN r THEN r[key] ELSE <<>>

\* replacements.get(key, default)
GetOr(r, key, default) == IF key \in DOMAIN r THEN r[key] ELSE default

\* a or b
Or(a, b) == IF a # <<>> THEN a ELSE b

\* lambda m: str(replacements.get(m.group(1), m.group(0))); a name of several
\* atoms is the name of no key
Lookup(r, name, whole) ==
    IF Len(name) = 1 /\ name[1] \in DOMAIN r THEN r[name[1]] ELSE whole

\* PLACEHOLDER_RE.sub(..., text): the matches from the left, none overlapping,
\* the replacement text not scanned again
RECURSIVE SubstitutePlaceholders(_, _)
SubstitutePlaceholders(text, r) ==
    IF text = <<>> THEN <<>>
    ELSE LET e == PLACEHOLDER_RE(text)
         IN  IF e = 0
             THEN <<Head(text)>> \o SubstitutePlaceholders(Tail(text), r)
             ELSE Lookup(r, SubSeq(text, 3, e - 1), SubSeq(text, 1, e))
                      \o SubstitutePlaceholders(SubSeq(text, e + 1, Len(text)), r)

\* the values the code takes for an unset prefix: ["", "LambdaPrefix", "lambdaPrefix"]
PrefixSentinels == {<<>>, <<"LambdaPrefix">>, <<"lambdaPrefix">>}

\* lambda_prefix and lambda_prefix not in ["LambdaPrefix", "lambdaPrefix", ""]
Usable(lambda_prefix) == lambda_prefix # <<>> /\ lambda_prefix \notin PrefixSentinels

\* the prefix as clean_duplicate_prefixes and the two fix_ functions read it
LowerFirstPrefix(r) == Or(Get(r, "lambdaPrefix"), Get(r, "LambdaPrefix"))

\* the prefix as resolve_conditional_options reads it
UpperFirstPrefix(r) == Or(Get(r, "LambdaPrefix"), Get(r, "lambdaPrefix"))

\* What a call yields when re raises re.error.
ReError == <<"re.error">>

\* duplicate_pattern.sub(f"{lambda_prefix}-", text) parses its first argument
\* as a replacement template: a backslash followed by a letter that is no
\* escape of the template language raises re.error("bad escape")
TemplateRaises(template) == \E k \in 1..Len(template) : template[k] = "\\q"

clean_duplicate_prefixes(text, r) ==
    LET lambda_prefix == LowerFirstPrefix(r)
    IN  IF ~Usable(lambda_prefix) THEN text
        ELSE IF TemplateRaises(lambda_prefix \o <<"-">>) THEN ReError
        ELSE Replace(text,
                     lambda_prefix \o <<"-">> \o lambda_prefix \o <<"-">>,
                     lambda_prefix \o <<"-">>)

\* a + b where either may be a call that raised
Cat(a, b) == IF a = ReError \/ b = ReError THEN ReError ELSE a \o b

\* role_mappings: the reference and the name of the deployed role
role_mappings ==
    << [cf_ref |-> "MultiorgMigrationRole.Arn", role |-> "MultiorgMigrationRole"],
       [cf_ref |-> "MultiorgInvokeTelephonyIntegrationApiFunctionRoleResource.Arn",
        role |-> "InvokeTelephonyIntegrationApiFunctionRole"],
       [cf_ref |-> "MultiorgContactDataSyncFunctionRoleResource.Arn",
        role |-> "ContactDataSyncFunctionRole"],
       [cf_ref |-> "MultiorgPostCallAnalysisTriggerFunctionRoleResource.Arn",
        role |-> "PostCallAnalysisTriggerFunctionRole"],
       [cf_ref |-> "MultiorgInvokeSalesforceRestApiFunctionRoleResource.Arn",
        role |-> "InvokeSalesforceRestApiFunctionRole"],
       [cf_ref |-> "MultiorgKvsTranscriberRoleResource.Arn", role |-> "KvsTranscriberRole"],
       [cf_ref |-> "MultiorgKvsConsumerTriggerRoleResource.Arn",
        role |-> "KvsConsumerTriggerRole"],
       [cf_ref |-> "MultiorgContactLensConsumerFunctionRoleResource.Arn",
        role |-> "ContactLensConsumerFunctionRole"],
       [cf_ref |-> "MultiorgVoiceMailAudioProcessingRoleResource.Arn",
        role |-> "VoiceMailAudioProcessingRole"],
       [cf_ref |-> "MultiorgVoiceMailPackagingRoleResource.Arn",
        role |-> "VoiceMailPackagingRole"],
       [cf_ref |-> "MultiorgVoiceMailTranscribeRoleResource.Arn",
        role |-> "VoiceMailTranscribeRole"],
       [cf_ref |-> "MultiorgHandleContactEventsRoleResource.Arn",
        role |-> "HandleContactEventsRole"],
       [cf_ref |-> "MultiorgStreamDiscoveryFunctionRoleResource.Arn",
        role |-> "StreamDiscoveryFunctionRole"],
       [cf_ref |-> "S3SecretCacheTTLRole.Arn", role |-> "S3SecretCacheTTLRole"] >>

\* f"arn:{partition}:iam::{account_id}:role/{lambda_prefix}-{role}"
RoleArn(partition, account_id, lambda_prefix, role) ==
    <<"arn:">> \o partition \o <<":iam::">> \o account_id \o <<":role/">>
        \o lambda_prefix \o <<"-", role>>

\* for cf_ref, actual_arn in role_mappings.items(): text = text.replace(...)
RECURSIVE ReplaceRoles(_, _, _, _, _)
ReplaceRoles(text, k, partition, account_id, lambda_prefix) ==
    IF k > Len(role_mappings) THEN text
    ELSE ReplaceRoles(Replace(text, <<role_mappings[k].cf_ref>>,
                              RoleArn(partition, account_id, lambda_prefix,
                                      role_mappings[k].role)),
                      k + 1, partition, account_id, lambda_prefix)

fix_multiorg_role_references(text, r) ==
    LET lambda_prefix == LowerFirstPrefix(r)
    IN  IF ~Usable(lambda_prefix) THEN text
        ELSE ReplaceRoles(text, 1, GetOr(r, "AWS::Partition", <<"aws">>),
                          GetOr(r, "AWS::AccountId", Placeholder("AWS::AccountId")),
                          lambda_prefix)

CTRStreamRef == "MultiorgStreamDiscoveryCustomResource.CTRStreamArn"
ContactLensStreamRef == "MultiorgStreamDiscoveryCustomResource.ContactLensStreamArn"

\* discover_connect_streams as the call in fix_custom_resource_outputs sees
\* it: "both" and "ctr" return the ARNs found, "neither" returns no ARN,
\* "raises" is a collaborator that fails
DiscoveryOutcomes == {"both", "ctr", "neither", "raises"}
discover_connect_streams == discovery
DiscoveredCTR == <<"arn:aws:kinesis:us-east-1:111122223333:stream/ctr">>
DiscoveredContactLens == <<"arn:aws:kinesis:us-east-1:111122223333:stream/lens">>

\* f"arn:{partition}:kinesis:{region}:{account_id}:stream/{lambda_prefix}-{name}"
StreamArn(partition, region, account_id, lambda_prefix, name) ==
    <<"arn:">> \o partition \o <<":kinesis:">> \o region \o <<":">> \o account_id
        \o <<":stream/">> \o lambda_prefix \o <<"-", name>>

fix_custom_resource_outputs(text, r) ==
    LET lambda_prefix == LowerFirstPrefix(r)
        partition == GetOr(r, "AWS::Partition", <<"aws">>)
        account_id == GetOr(r, "AWS::AccountId", Placeholder("AWS::AccountId"))
        region == GetOr(r, "AWS::Region", Placeholder("AWS::Region"))
        connect_instance_id == Get(r, "ConnectInstanceId")
        discovers ==
            /\ Contains(text, <<CTRStreamRef>>) \/ Contains(text, <<ContactLensStreamRef>>)
            /\ connect_instance_id # <<>>
            /\ connect_instance_id # <<"ConnectInstanceId">>
        ctr == IF discovers /\ discover_connect_streams \in {"both", "ctr"}
               THEN DiscoveredCTR
               ELSE StreamArn(partition, region, account_id, lambda_prefix, "CTRStream")
        lens == IF discovers /\ discover_connect_streams = "both"
                THEN DiscoveredContactLens
                ELSE StreamArn(partition, region, account_id, lambda_prefix,
                               "ContactLensStream")
    IN  IF ~Usable(lambda_prefix) THEN text
        ELSE Replace(Replace(text, <<CTRStreamRef>>, ctr), <<ContactLensStreamRef>>, lens)

replace_placeholders_in_string(text, r) ==
    clean_duplicate_prefixes(
        SubstitutePlaceholders(
            fix_custom_resource_outputs(fix_multiorg_role_references(text, r), r), r), r)

\* "${LambdaPrefix}" in option or "${lambdaPrefix}" in option
HasLambdaPrefix(option) ==
    \/ Contains(option, Placeholder("LambdaPrefix"))
    \/ Contains(option, Placeholder("lambdaPrefix"))

\* not PLACEHOLDER_RE.search(s) and not s.startswith('-')
FullyResolved(s) == ~HasPlaceholder(s) /\ ~StartsWithDash(s)

resolve_conditional_options(opt1, opt2, r) ==
    LET option1_has_lambda_prefix == HasLambdaPrefix(opt1)
        option2_has_lambda_prefix == HasLambdaPrefix(opt2)
        lambda_prefix == UpperFirstPrefix(r)
        option1_resolved == replace_placeholders_in_string(opt1, r)
        option2_resolved == replace_placeholders_in_string(opt2, r)
    IN  IF option1_has_lambda_prefix /\ Usable(lambda_prefix) THEN option1_resolved
        ELSE IF option2_has_lambda_prefix /\ Usable(lambda_prefix) THEN option2_resolved
        ELSE IF option1_resolved = ReError THEN ReError
        ELSE IF FullyResolved(option1_resolved) THEN option1_resolved
        ELSE IF option2_resolved = ReError THEN ReError
        ELSE IF FullyResolved(option2_resolved) THEN option2_resolved
        ELSE IF ~StartsWithDash(option1_resolved) /\ ~StartsWithDash(option2_resolved)
             THEN IF option1_has_lambda_prefix THEN option1_resolved
                  ELSE IF option2_has_lambda_prefix THEN option2_resolved
                  ELSE option1_resolved
        ELSE IF ~StartsWithDash(option1_resolved) THEN option1_resolved
        ELSE IF ~StartsWithDash(option2_resolved) THEN option2_resolved
        ELSE option1_resolved

\* [^|\s]+ matched at s[i]: the index of the last atom of the run, i - 1 when
\* s[i] is a pipe, white space or past the end
RunEnd(s, i) ==
    IF i > Len(s) \/ s[i] \in {"|", " "} THEN i - 1
    ELSE CHOOSE j \in i..Len(s) :
             /\ \A k \in i..j : s[k] \notin {"|", " "}
             /\ j = Len(s) \/ s[j + 1] \in {"|", " "}

\* CONDITIONAL_RE = ([^|\s]+\|[^|\s]+) matched at the start of s: the index
\* of the pipe, 0 when there is no match there
CONDITIONAL_RE(s) ==
    LET e1 == RunEnd(s, 1)
    IN  IF e1 >= 1 /\ e1 + 1 <= Len(s) /\ s[e1 + 1] = "|" /\ RunEnd(s, e1 + 2) >= e1 + 2
        THEN e1 + 1
        ELSE 0

\* CONDITIONAL_RE.sub(replace_conditional_match, value): a run that is not
\* the first option of a match holds the start of no match
RECURSIVE resolve_conditional_placeholder(_, _)
resolve_conditional_placeholder(value, r) ==
    IF value = <<>> THEN <<>>
    ELSE LET bar == CONDITIONAL_RE(value)
             e1 == RunEnd(value, 1)
             e2 == RunEnd(value, bar + 1)
         IN  IF bar > 0
             THEN Cat(resolve_conditional_options(SubSeq(value, 1, bar - 1),
                                                  SubSeq(value, bar + 1, e2), r),
                      resolve_conditional_placeholder(SubSeq(value, e2 + 1, Len(value)), r))
             ELSE IF e1 >= 1
             THEN Cat(SubSeq(value, 1, e1),
                      resolve_conditional_placeholder(SubSeq(value, e1 + 1, Len(value)), r))
             ELSE Cat(<<Head(value)>>, resolve_conditional_placeholder(Tail(value), r))

\* A document node: a dict (its items in order), a list, a str or any other
\* value (numbers, booleans, None), which the resolver passes through.
Str(s) == [type |-> "str", val |-> s]
Scalar(v) == [type |-> "scalar", val |-> v]
List(items) == [type |-> "list", val |-> items]
Dict(items) == [type |-> "dict", val |-> items]
Item(k, v) == [key |-> k, value |-> v]

\* What replace_placeholders yields when the exception leaves it.
RaisedNode == [type |-> "raised", val |-> ReError]

\* the branch of replace_placeholders for isinstance(data, str)
ResolveString(s, r) ==
    LET resolved_conditional == resolve_conditional_placeholder(s, r)
        out == IF resolved_conditional = ReError THEN ReError
               ELSE replace_placeholders_in_string(resolved_conditional, r)
    IN  IF out = ReError THEN RaisedNode ELSE Str(out)

RECURSIVE replace_placeholders(_, _)
replace_placeholders(node, r) ==
    IF node.type = "dict"
    THEN LET items == [k \in 1..Len(node.val) |->
                          Item(node.val[k].key, replace_placeholders(node.val[k].value, r))]
         IN  IF \E k \in 1..Len(items) : items[k].value.type = "raised"
             THEN RaisedNode ELSE Dict(items)
    ELSE IF node.type = "list"
    THEN LET items == [k \in 1..Len(node.val) |-> replace_placeholders(node.val[k], r)]
         IN  IF \E k \in 1..Len(items) : items[k].type = "raised"
             THEN RaisedNode ELSE List(items)
    ELSE IF node.type = "str" THEN ResolveString(node.val, r)
    ELSE node

----------------------------------------------------------------------------
\* The arguments the resolver is called with.

\* A key the context does not hold.
Absent == <<"None">>

Bind(key, v) == IF v = Absent THEN <<>> ELSE key :> v

\* Contexts as healthcheck.py builds them and as a caller may pass them: each
\* key missing, empty, set, or set to the name of its placeholder; a prefix
\* may hold a backslash (LAMBDA_PREFIX is read from the environment as it is).
UpperPrefixValues == {Absent, <<>>, <<"org">>, <<"LambdaPrefix">>, <<"\\q">>}
LowerPrefixValues == {Absent, <<>>, <<"org">>, <<"dev">>}
CallCenterValues == {Absent, <<"cc">>, <<"CallCenterApiName">>}
InstanceIdValues == {Absent, <<"id">>}
AccountIdValues == {Absent, <<"123">>}

Context(a, b, c, d, e) ==
    Bind("LambdaPrefix", a) @@ Bind("lambdaPrefix", b) @@ Bind("CallCenterApiName", c)
        @@ Bind("ConnectInstanceId", d) @@ Bind("AWS::AccountId", e)

OptionContexts ==
    {Context(a, b, c, Absent, Absent) :
        a \in UpperPrefixValues, b \in LowerPrefixValues, c \in CallCenterValues}

Contexts ==
    {Context(a, b, c, d, e) :
        a \in UpperPrefixValues, b \in LowerPrefixValues, c \in CallCenterValues,
        d \in InstanceIdValues, e \in AccountIdValues}

\* Options: a head, a separator or none, a tail; never empty (CONDITIONAL_RE
\* matches no empty option).
OptionHeads ==
    {<<>>, Placeholder("LambdaPrefix"), Placeholder("lambdaPrefix"),
     Placeholder("CallCenterApiName"), Placeholder("X"), <<"org">>}
OptionTails == {<<>>, <<"F">>, Placeholder("X")}
Options ==
    {h \o m \o t : h \in OptionHeads, m \in {<<>>, <<"-">>}, t \in OptionTails} \ {<<>>}

\* "A|B"
Conditional(a, b) == a \o <<"|">> \o b

PrefixFunction == Placeholder("LambdaPrefix") \o <<"-", "F">>
LowerPrefixFunction == Placeholder("lambdaPrefix") \o <<"-", "F">>
CallCenterFunction == Placeholder("CallCenterApiName") \o <<"-", "F">>
UnknownFunction == Placeholder("X") \o <<"-", "F">>

\* String leaves: plain text, simple tokens, conditionals alone and inside a
\* sentence, malformed tokens and conditionals, a doubled prefix, references.
TemplateStrings ==
    {<<>>, <<"F">>, PrefixFunction, LowerPrefixFunction, CallCenterFunction,
     UnknownFunction,
     <<"org", "-">> \o PrefixFunction,
     <<"org", "-", "org", "-", "F">>,
     <<"org", "-", "org", "-", "org", "-", "F">>,
     <<"a", "|", "b">>,
     Conditional(CallCenterFunction, PrefixFunction),
     Conditional(PrefixFunction, CallCenterFunction),
     Conditional(LowerPrefixFunction, CallCenterFunction),
     Conditional(UnknownFunction, <<"-", "F">>),
     <<"SCV", " ">> \o Conditional(CallCenterFunction, PrefixFunction) \o <<" ", "Errors">>,
     <<"a", "|", "b", "|", "c">>, <<"a", "|">>, <<"|", "b">>, <<"a", "|", "|", "b">>,
     <<"a", " ", "|", " ", "b">>,
     <<"$", "{", "X">>, <<"$", "{", "}">>, <<"$", "X">>, <<"}">>,
     <<"$", "{">> \o Placeholder("CallCenterApiName"),
     <<"MultiorgMigrationRole.Arn">>, <<CTRStreamRef>>, <<ContactLensStreamRef>>}

\* Values that are no dict, list or str.
Scalars == {Scalar("42"), Scalar("true"), Scalar("null")}

Leaves == {Str(t) : t \in TemplateStrings} \cup Scalars

\* The leaves the containers are built from.
ContainerLeaves ==
    {Str(PrefixFunction), Str(Conditional(CallCenterFunction, PrefixFunction)),
     Scalar("42"), Scalar("null")}

\* Keys of a dict; a key may hold a token.
DocumentKeys == {<<"name">>, Placeholder("LambdaPrefix") \o <<"-", "key">>}

Lists ==
    {List(<<>>)} \cup {List(<<a>>) : a \in ContainerLeaves}
        \cup {List(<<a, b>>) : a \in ContainerLeaves, b \in ContainerLeaves}

Dicts ==
    {Dict(<<>>)} \cup {Dict(<<Item(k, a)>>) : k \in DocumentKeys, a \in ContainerLeaves}
        \cup {Dict(<<Item(kl[1], a), Item(kl[2], b)>>) :
                 kl \in {x \in DocumentKeys \X DocumentKeys : x[1] # x[2]},
                 a \in ContainerLeaves, b \in ContainerLeaves}

Nested ==
    {Dict(<<Item(k, n)>>) : k \in DocumentKeys, n \in Lists \cup Dicts}
        \cup {List(<<n>>) : n \in Lists \cup Dicts}

Documents == Leaves \cup Lists \cup Dicts \cup Nested

----------------------------------------------------------------------------
\* The resolver called once on arguments of the sets above.

ResolverInit ==
    /\ max_threads = 0
    /\ pc = "none"
    /\ submitted = 0
    /\ tstate = [i \in Tasks |-> "unsubmitted"]
    /\ outcome = [i \in Tasks |-> NoOutcome]
    /\ calls = [i \in Tasks |-> 0]
    /\ num_threads = 0
    /\ idle = 0
    /\ pending = {}
    /\ yieldq = <<>>
    /\ waiterq = <<>>
    /\ full_report = <<>>
    /\ errors = <<>>
    /\ ReportIdle
    /\ RunIdle
    /\ EnvIdle
    /\ resolved = <<>>
    /\ \/ /\ call = "resolve_conditional_options"
          /\ option1 \in Options
          /\ option2 \in Options
          /\ replacements \in OptionContexts
          /\ data = <<>>
          /\ discovery = "none"
       \/ /\ call = "replace_placeholders"
          /\ data \in Documents
          /\ replacements \in Contexts
          /\ discovery \in DiscoveryOutcomes
          /\ option1 = <<>>
          /\ option2 = <<>>

ResolveConditionalOptions ==
    /\ call = "resolve_conditional_options"
    /\ resolved' = resolve_conditional_options(option1, option2, replacements)
    /\ call' = "resolve_conditional_options returned"
    /\ UNCHANGED <<option1, option2, data, replacements, discovery>>
    /\ UNCHANGED <<vars, report_vars, run_vars, env_vars>>

ReplacePlaceholders ==
    /\ call = "replace_placeholders"
    /\ resolved' = replace_placeholders(data, replacements)
    /\ call' = "replace_placeholders returned"
    /\ UNCHANGED <<option1, option2, data, replacements, discovery>>
    /\ UNCHANGED <<vars, report_vars, run_vars, env_vars>>

ResolverNext == ResolveConditionalOptions \/ ReplacePlaceholders

ResolverSpec ==
    ResolverInit /\ [][ResolverNext]_<<vars, resolver_vars, report_vars, run_vars, env_vars>>

----------------------------------------------------------------------------
\* Vocabulary of the claims about the resolver.

OptionsReturned == call = "resolve_conditional_options returned"
DocumentReturned == call = "replace_placeholders returned"

\* an option with its own simple tokens substituted
SpecSubstituted(option, r) == SubstitutePlaceholders(option, r)

\* the prefix has a non-empty, non-sentinel value (capitalized key first)
SpecPrefixSet(r) ==
    LET p == UpperFirstPrefix(r)
    IN  p # <<>> /\ p # <<"LambdaPrefix">> /\ p # <<"lambdaPrefix">>

\* fully resolves and does not start with '-'
SpecFullyResolves(s) == ~HasPlaceholder(s) /\ ~StartsWithDash(s)

\* steps 1 to 5 of the decision procedure, in that order
SpecSteps(a, b, r) ==
    LET ra == SpecSubstituted(a, r)
        rb == SpecSubstituted(b, r)
        ta == HasLambdaPrefix(a)
        tb == HasLambdaPrefix(b)
    IN  IF ta # tb /\ SpecPrefixSet(r) THEN (IF ta THEN ra ELSE rb)
        ELSE IF SpecFullyResolves(ra) THEN ra
        ELSE IF SpecFullyResolves(rb) THEN rb
        ELSE IF ~StartsWithDash(ra) /\ ~StartsWithDash(rb)
             THEN (IF ta THEN ra ELSE IF tb THEN rb ELSE ra)
        ELSE IF ~StartsWithDash(ra) THEN ra
        ELSE IF ~StartsWithDash(rb) THEN rb
        ELSE ra

\* C11: for every pair of options and every context,
\* resolve_conditional_options returns the string that steps 1 to 5 choose
\* (1: exactly one option carries the prefix token and the prefix is set;
\* 2: the option that fully resolves without a leading '-'; 3: neither
\* resolved option starts with '-': the one carrying the prefix token; 4: the
\* one not starting with '-'; 5: the first option's resolved form).
C11_FiveSteps ==
    OptionsReturned => resolved = SpecSteps(option1, option2, replacements)

\* the option carries ${CallCenterApiName}
HasCallCenter(option) == Contains(option, Placeholder("CallCenterApiName"))

\* one option carries the prefix token, the other ${CallCenterApiName}
PrefixAgainstCallCenter(a, b) ==
    /\ HasLambdaPrefix(a) /\ ~HasCallCenter(a)
    /\ HasCallCenter(b) /\ ~HasLambdaPrefix(b)

\* what P3 says of the conditional whose prefix option is a and whose
\* call-center option is b
SpecPriority(a, b, r, result) ==
    /\ SpecPrefixSet(r) => result = SpecSubstituted(a, r)
    /\ UpperFirstPrefix(r) = <<>> => result = SpecSubstituted(b, r)

\* C12: in a conditional of a prefix option and a ${CallCenterApiName} option,
\* with CallCenterApiName set, the result is the prefix option resolved when
\* the prefix has a non-empty value, in either position, and the call-center
\* option resolved when the prefix is absent or empty.
C12_ConditionalPriority ==
    (OptionsReturned /\ Get(replacements, "CallCenterApiName") # <<>>) =>
        /\ PrefixAgainstCallCenter(option1, option2) =>
               SpecPriority(option1, option2, replacements, resolved)
        /\ PrefixAgainstCallCenter(option2, option1) =>
               SpecPriority(option2, option1, replacements, resolved)

\* C13: for every pair of options and every context, the two prefix keys
\* differing or one of them empty included, resolve_conditional_options
\* returns no string starting with '-' when the resolved form of one of the
\* options does not start with '-'.
C13_NoDanglingSeparator ==
    (OptionsReturned /\ StartsWithDash(resolved)) =>
        /\ StartsWithDash(SpecSubstituted(option1, replacements))
        /\ StartsWithDash(SpecSubstituted(option2, replacements))

\* the value of key is the name of a placeholder that stands for "unset"
IsSentinel(r, key) ==
    r[key] = <<key>> \/ (key \in {"LambdaPrefix", "lambdaPrefix"} /\ r[key] \in PrefixSentinels \ {<<>>})

\* the context without the keys that hold a sentinel
WithoutSentinels(r) ==
    LET kept == {key \in DOMAIN r : ~IsSentinel(r, key)}
    IN  [key \in kept |-> r[key]]

HoldsSentinel(r) == \E key \in DOMAIN r : IsSentinel(r, key)

\* C14: a context value equal to a placeholder-name sentinel is treated as
\* absent: the document resolves as it does under the context without that
\* key, so the sentinel text is never inserted and the token stays verbatim.
C14_SentinelsAreAbsent ==
    (DocumentReturned /\ HoldsSentinel(replacements)) =>
        resolved = replace_placeholders(data, WithoutSentinels(replacements))

\* same keys in the same order, same lengths and element order, same
\* non-string scalars; only string leaves may differ
RECURSIVE SameStructure(_, _)
SameStructure(d, out) ==
    /\ out.type = d.type
    /\ d.type = "scalar" => out.val = d.val
    /\ d.type = "list" =>
           /\ Len(out.val) = Len(d.val)
           /\ \A k \in 1..Len(d.val) : SameStructure(d.val[k], out.val[k])
    /\ d.type = "dict" =>
           /\ Len(out.val) = Len(d.val)
           /\ \A k \in 1..Len(d.val) :
                  /\ out.val[k].key = d.val[k].key
                  /\ SameStructure(d.val[k].value, out.val[k].value)

\* C15: for every document d and context c, replace_placeholders(d, c) has
\* the keys, the sequence lengths and order and the non-string scalars of d;
\* keys are not rewritten even when they hold tokens.
C15_StructurePreserved == DocumentReturned => SameStructure(data, resolved)

\* the string holds no conditional token
NoConditional(s) == \A i \in 1..Len(s) : CONDITIONAL_RE(SubSeq(s, i, Len(s))) = 0

\* C16: in a string without conditional tokens every ${Name} whose Name is a
\* key of the context is replaced by context[Name], every other ${Name} is
\* left verbatim, and all other characters are unchanged.
C16_SimpleSubstitution ==
    (DocumentReturned /\ data.type = "str" /\ NoConditional(data.val)) =>
        resolved = Str(SpecSubstituted(data.val, replacements))

\* C17: for every document and every string-to-string context, malformed
\* tokens, malformed conditionals and a failing stream discovery included,
\* replace_placeholders returns a document and raises no error.
C17_ResolverCannotFail == DocumentReturned => resolved.type # "raised"

\* the string leaves of a document
RECURSIVE StringLeaves(_)
StringLeaves(node) ==
    IF node.type = "str" THEN {node.val}
    ELSE IF node.type = "list"
    THEN UNION {StringLeaves(node.val[k]) : k \in 1..Len(node.val)}
    ELSE IF node.type = "dict"
    THEN UNION {StringLeaves(node.val[k].value) : k \in 1..Len(node.val)}
    ELSE {}

\* C22: for every document whose strings contain no ${...} placeholder and
\* for every context, replace_placeholders returns a document equal to its
\* input.
C22_UnchangedWithoutPlaceholders ==
    (DocumentReturned /\ \A s \in StringLeaves(data) : ~HasPlaceholder(s)) =>
        resolved = data

PipeCount(s) == Cardinality({k \in 1..Len(s) : s[k] = "|"})

\* one word with an empty conditional part or with more than one separator
SpecMalformedConditional(s) ==
    /\ \A k \in 1..Len(s) : s[k] # " "
    /\ PipeCount(s) >= 1
    /\ PipeCount(s) > 1 \/ s[1] = "|" \/ s[Len(s)] = "|"

\* C28: a conditional with an empty part ("|b", "a|") or with more than one
\* separator ("a|b|c") is left in the output exactly as written; no part of
\* it is selected or dropped.
C28_MalformedConditionalKept ==
    (DocumentReturned /\ data.type = "str" /\ SpecMalformedConditional(data.val)) =>
        resolved = data

\* "p-p-"
SpecDuplicated(p) == p \o <<"-">> \o p \o <<"-">>

\* C29: when the prefix has a non-empty, non-sentinel value p, no string leaf
\* of the returned document contains "p-p-"; when the prefix is unset, empty
\* or a sentinel, the cleanup changes nothing.
C29_CleanupComplete ==
    (DocumentReturned /\ resolved.type # "raised") =>
        LET p == LowerFirstPrefix(replacements)
        IN  IF p # <<>> /\ p \notin {<<"LambdaPrefix">>, <<"lambdaPrefix">>}
            THEN \A s \in StringLeaves(resolved) : ~Contains(s, SpecDuplicated(p))
            ELSE \A s \in StringLeaves(resolved) :
                     clean_duplicate_prefixes(s, replacements) = s

\* C30: for every document d and context c, resolving the resolved document
\* again with c changes nothing.
C30_SecondPassStable ==
    (DocumentReturned /\ resolved.type # "raised") =>
        replace_placeholders(resolved, replacements) = resolved

----------------------------------------------------------------------------
\* core/reporting.py.  A dict is a record that holds the keys present; the
\* texts are sequences of atoms, the double quote, the comma and the line
\* break being atoms of their own.

\* hc.get(key, default)
Field(d, key, default) == IF key \in DOMAIN d THEN d[key] ELSE default

\* the branch of the counting loop an item takes
Bucket(hc) ==
    LET status == Field(hc, "status", 500)
    IN  IF status = 200 THEN "healthy"
        ELSE IF status >= 400 THEN "unhealthy"
        ELSE "warnings"

NoCounts == [total_resources |-> 0, healthy |-> 0, unhealthy |-> 0, warnings |-> 0]

\* for hc in health_checks: one counter goes up
RECURSIVE CountItems(_, _)
CountItems(counts, health_checks) ==
    IF health_checks = <<>> THEN counts
    ELSE LET b == Bucket(Head(health_checks))
         IN  CountItems([counts EXCEPT ![b] = @ + 1], Tail(health_checks))

\* Mutant: total_resources counts the reports, not their items.
RECURSIVE CountReportsNotItems(_, _)
CountReportsNotItems(counts, reports) ==
    IF reports = <<>> THEN counts
    ELSE LET health_checks == Field(Head(reports), "DetailedHealthCheck", <<>>)
             counted == [counts EXCEPT !.total_resources = @ + 1]
         IN  CountReportsNotItems(CountItems(counted, health_checks), Tail(reports))

\* for report in full_report: total_resources += len(health_checks), then the items
RECURSIVE CountReports(_, _)
CountReports(counts, reports) ==
    IF reports = <<>> THEN counts
    ELSE LET health_checks == Field(Head(reports), "DetailedHealthCheck", <<>>)
             counted == [counts EXCEPT !.total_resources = @ + Len(health_checks)]
         IN  CountReports(CountItems(counted, health_checks), Tail(reports))

\* Mutant: the error list no longer turns a clean run into a warning.
OverallStatusIgnoresErrors(unhealthy_resources, warning_resources, errs) ==
    IF unhealthy_resources > 0 THEN "UNHEALTHY"
    ELSE IF warning_resources > 0 THEN "WARNING"
    ELSE "HEALTHY"

\* the overall status from the counters and the error list
OverallStatus(unhealthy_resources, warning_resources, errs) ==
    IF unhealthy_resources > 0 THEN "UNHEALTHY"
    ELSE IF warning_resources > 0 \/ errs # <<>> THEN "WARNING"
    ELSE "HEALTHY"

\* datetime.datetime.now(datetime.timezone.utc).isoformat()
now == clock

\* is_debug_enabled(): LOG_LEVEL or _LAMBDA_TELEMETRY_LOG_LEVEL of the
\* environment is INFO, DEBUG or TRACE
is_debug_enabled == debug

\* execution_metadata, with execution_time_ms only when debug logging is on
ExecutionMetadata(execution_id, execution_time_ms) ==
    IF is_debug_enabled
    THEN [execution_id |-> execution_id, timestamp |-> now, version |-> "refactored_v1.0",
          execution_time_ms |-> execution_time_ms]
    ELSE [execution_id |-> execution_id, timestamp |-> now, version |-> "refactored_v1.0"]

\* input_parameters
InputParameters(health_input) ==
    [cc_version |-> health_input.cc_version,
     cc_name |-> health_input.cc_name,
     sku |-> health_input.sku,
     execution_id |-> health_input.execution_id,
     connect_instance_arn |-> health_input.connect_instance_arn,
     region |-> health_input.region,
     max_threads |-> health_input.max_threads]

generate_enhanced_report(health_input, reports, execution_id, execution_time_ms, errs) ==
    LET counts == CountReports(NoCounts, reports)
    IN  [execution_metadata |-> ExecutionMetadata(execution_id, execution_time_ms),
         input_parameters |-> InputParameters(health_input),
         summary |->
             [overall_status |-> OverallStatus(counts.unhealthy, counts.warnings, errs),
              total_resources |-> counts.total_resources,
              healthy |-> counts.healthy,
              unhealthy |-> counts.unhealthy,
              warnings |-> counts.warnings,
              error_count |-> Len(errs)],
         detailed_results |-> reports,
         errors |-> errs]

Quote == "\""

CsvHeader == <<"ResourceName", ",", "ResourceType", ",", "Status", ",", "Message">>

\* Mutant: the CSV follows the three buckets and calls a warning healthy.
CsvStatusBelow400(health_check) ==
    IF Field(health_check, "status", 500) < 400 THEN "HEALTHY" ELSE "UNHEALTHY"

\* "HEALTHY" if health_check.get("status") == 200 else "UNHEALTHY"
CsvStatus(health_check) ==
    IF "status" \in DOMAIN health_check /\ health_check.status = 200
    THEN "HEALTHY" ELSE "UNHEALTHY"

\* the four values a line interpolates
CsvFields(resource_type, health_check) ==
    [resource_name |-> Field(health_check, "ResourceName", <<"Unknown">>),
     resource_type |-> resource_type,
     status |-> CsvStatus(health_check),
     message |-> Replace(Field(health_check, "message", <<>>), <<Quote>>, <<Quote, Quote>>)]

\* f'"{resource_name}","{resource_type}","{status}","{message}"'
CsvFormat(f) ==
    <<Quote>> \o f.resource_name \o <<Quote, ",", Quote>> \o f.resource_type
        \o <<Quote, ",", Quote, f.status, Quote, ",", Quote>> \o f.message \o <<Quote>>

CsvLine(resource_type, health_check) == CsvFormat(CsvFields(resource_type, health_check))

\* the lines one report appends
CsvLinesOf(resource_type_report) ==
    LET resource_type == Field(resource_type_report, "ResourceType", <<"Unknown">>)
        health_checks == Field(resource_type_report, "DetailedHealthCheck", <<>>)
    IN  [k \in 1..Len(health_checks) |-> CsvLine(resource_type, health_checks[k])]

RECURSIVE CsvLines(_)
CsvLines(reports) ==
    IF reports = <<>> THEN <<>>
    ELSE CsvLinesOf(Head(reports)) \o CsvLines(Tail(reports))

\* "\n".join(lines)
RECURSIVE Join(_)
Join(lines) ==
    IF lines = <<>> THEN <<>>
    ELSE IF Len(lines) = 1 THEN Head(lines)
    ELSE Head(lines) \o <<"\n">> \o Join(Tail(lines))

generate_csv_report(report) ==
    Join(<<CsvHeader>> \o CsvLines(Field(report, "detailed_results", <<>>)))

----------------------------------------------------------------------------
\* The arguments the report generators are called with.

\* Items as the validators build them and as a caller may pass them: every
\* kind of status, a missing status, name or message, a quoted message, a
\* quoted name.
ItemPool ==
    << [ResourceName |-> <<"fn">>, status |-> 200, message |-> <<"ok">>],
       [ResourceName |-> <<"role">>, status |-> 500,
        message |-> <<"not", " ", Quote, "found", Quote>>],
       [ResourceName |-> <<"alarm">>, status |-> 300, message |-> <<"degraded">>],
       [ResourceName |-> <<"layer", " ", Quote, "v1", Quote>>, status |-> 201,
        message |-> <<"created">>],
       [ResourceName |-> <<"bucket">>, message |-> <<"no", " ", "status">>],
       [ResourceName |-> <<"stream">>, status |-> 400],
       [status |-> 399, message |-> <<"a", ",", "b">>],
       [ResourceName |-> <<"alias">>, status |-> 199, message |-> <<>>] >>

\* n items of the pool from the offset on, around the end
PoolItems(offset, n) ==
    [k \in 1..n |-> ItemPool[((offset + k - 2) % Len(ItemPool)) + 1]]

ItemLists == {PoolItems(offset, n) : offset \in 1..Len(ItemPool), n \in 0..MaxItems}

\* Reports: with and without a ResourceType, with and without items.
ReportPool ==
    {[ResourceType |-> <<"Lambda", " ", "Function">>, DetailedHealthCheck |-> items] :
         items \in ItemLists}
        \cup {[DetailedHealthCheck |-> items] : items \in ItemLists}
        \cup {[ResourceType |-> <<"S3", " ", "Bucket">>]}

\* the lists of at most n elements of S
RECURSIVE ListsUpTo(_, _)
ListsUpTo(S, n) ==
    IF n = 0 THEN {<<>>}
    ELSE LET shorter == ListsUpTo(S, n - 1)
         IN  shorter \cup {Append(q, x) : q \in shorter, x \in S}

ErrorLists == {[k \in 1..n |-> <<"Failed", " ", "to", " ", "validate">>] : n \in 0..MaxErrors}

\* A HealthCheckInput as parse_input_parameters builds it.
HealthInput(threads) ==
    [cc_version |-> "19.0", cc_name |-> "cc", sku |-> "resell", execution_id |-> "hc-1",
     connect_instance_arn |-> "arn:aws:connect:us-east-1:111122223333:instance/id",
     region |-> "us-east-1", max_threads |-> threads]

\* execution_time, in ms, as lambda_handler measured it
execution_time == 1500

\* max_threads when the event gives none
DefaultMaxThreads == 10

ReportInit ==
    /\ max_threads = 0
    /\ pc = "none"
    /\ submitted = 0
    /\ tstate = [i \in Tasks |-> "unsubmitted"]
    /\ outcome = [i \in Tasks |-> NoOutcome]
    /\ calls = [i \in Tasks |-> 0]
    /\ num_threads = 0
    /\ idle = 0
    /\ pending = {}
    /\ yieldq = <<>>
    /\ waiterq = <<>>
    /\ full_report = <<>>
    /\ errors = <<>>
    /\ ResolverIdle
    /\ RunIdle
    /\ EnvIdle
    /\ report_call = "generate_enhanced_report"
    /\ \E reports \in ListsUpTo(ReportPool, MaxReports) : \E errs \in ErrorLists :
           report_input = [full_report |-> reports, errors |-> errs]
    /\ enhanced_report = <<>>
    /\ csv_report = <<>>

GenerateEnhancedReport ==
    /\ report_call = "generate_enhanced_report"
    /\ enhanced_report' =
           generate_enhanced_report(HealthInput(DefaultMaxThreads), report_input.full_report,
                                    HealthInput(DefaultMaxThreads).execution_id,
                                    execution_time, report_input.errors)
    /\ report_call' = "generate_csv_report"
    /\ UNCHANGED <<report_input, csv_report>>
    /\ UNCHANGED <<vars, resolver_vars, run_vars, env_vars>>

GenerateCsvReport ==
    /\ report_call = "generate_csv_report"
    /\ csv_report' = generate_csv_report(enhanced_report)
    /\ report_call' = "returned"
    /\ UNCHANGED <<report_input, enhanced_report>>
    /\ UNCHANGED <<vars, resolver_vars, run_vars, env_vars>>

ReportNext == GenerateEnhancedReport \/ GenerateCsvReport

ReportSpec ==
    ReportInit /\ [][ReportNext]_<<vars, resolver_vars, report_vars, run_vars, env_vars>>

----------------------------------------------------------------------------
\* Vocabulary of the claims about the report generators.

ReportGenerated == report_call \in {"generate_csv_report", "returned"}
CsvGenerated == report_call = "returned"

\* the items of all reports, in report order then item order, each with the
\* ResourceType of its report
RECURSIVE SpecItems(_)
SpecItems(reports) ==
    IF reports = <<>> THEN <<>>
    ELSE LET r == Head(reports)
             items == IF "DetailedHealthCheck" \in DOMAIN r THEN r.DetailedHealthCheck
                      ELSE <<>>
             type == IF "ResourceType" \in DOMAIN r THEN r.ResourceType ELSE <<"Unknown">>
         IN  [k \in 1..Len(items) |-> [resource_type |-> type, item |-> items[k]]]
                 \o SpecItems(Tail(reports))

InputItems == SpecItems(report_input.full_report)

\* the status of an item as the summary reads it: an item without a status
\* is read as a failure (500)
SpecStatus(e) == IF "status" \in DOMAIN e.item THEN e.item.status ELSE 500

NumberWith(P(_)) == Cardinality({k \in 1..Len(InputItems) : P(InputItems[k])})

SpecUnhealthy(e) == SpecStatus(e) >= 400
SpecHealthy(e) == SpecStatus(e) = 200
SpecWarning(e) == ~SpecHealthy(e) /\ ~SpecUnhealthy(e)

\* C18: overall_status is "UNHEALTHY" if any item has status >= 400;
\* otherwise "WARNING" if any item has a status other than 200 or the error
\* list is non-empty; otherwise "HEALTHY", no items and no errors included.
C18_OverallStatus ==
    ReportGenerated =>
        enhanced_report.summary.overall_status =
            IF \E k \in 1..Len(InputItems) : SpecStatus(InputItems[k]) >= 400
            THEN "UNHEALTHY"
            ELSE IF \/ \E k \in 1..Len(InputItems) : SpecStatus(InputItems[k]) # 200
                    \/ report_input.errors # <<>>
            THEN "WARNING"
            ELSE "HEALTHY"

\* a warning that only the error list causes
C18_Witness ==
    /\ ReportGenerated
    /\ InputItems # <<>>
    /\ \A k \in 1..Len(InputItems) : SpecStatus(InputItems[k]) = 200
    /\ report_input.errors # <<>>
    /\ enhanced_report.summary.overall_status = "WARNING"

\* C19: total_resources = healthy + unhealthy + warnings, total_resources is
\* the number of items over all reports, every item is counted in exactly one
\* bucket, and error_count is the length of the error list.
C19_SummaryArithmetic ==
    ReportGenerated =>
        LET sum == enhanced_report.summary
        IN  /\ sum.total_resources = sum.healthy + sum.unhealthy + sum.warnings
            /\ sum.total_resources = Len(InputItems)
            /\ sum.healthy = NumberWith(SpecHealthy)
            /\ sum.unhealthy = NumberWith(SpecUnhealthy)
            /\ sum.warnings = NumberWith(SpecWarning)
            /\ sum.error_count = Len(report_input.errors)

\* every bucket and the error list are non-empty, over more than one report
C19_Witness ==
    /\ ReportGenerated
    /\ Len(report_input.full_report) > 1
    /\ enhanced_report.summary.healthy > 0
    /\ enhanced_report.summary.unhealthy > 0
    /\ enhanced_report.summary.warnings > 0
    /\ enhanced_report.summary.error_count > 0

SpecCsvHeader == <<"ResourceName", ",", "ResourceType", ",", "Status", ",", "Message">>

\* HEALTHY if the item's status is 200, UNHEALTHY for every other status and
\* for a missing status
SpecCsvStatus(e) ==
    IF "status" \in DOMAIN e.item /\ e.item.status = 200 THEN "HEALTHY" ELSE "UNHEALTHY"

\* the row of an item: its fields as rendered, the Status field as specified
SpecCsvRow(e) ==
    CsvFormat([CsvFields(e.resource_type, e.item) EXCEPT !.status = SpecCsvStatus(e)])

\* C20: the CSV is the header row ResourceName,ResourceType,Status,Message
\* followed by exactly one row per item, in report order then item order,
\* whose Status is HEALTHY if the item's status is 200 and UNHEALTHY for every
\* other status (201, 300 and a missing status included).
C20_CsvRendering ==
    CsvGenerated =>
        csv_report =
            Join(<<SpecCsvHeader>> \o [k \in 1..Len(InputItems) |-> SpecCsvRow(InputItems[k])])

\* a CSV of two reports with a healthy item, a warning-bucket item and an
\* item without status
C20_Witness ==
    /\ CsvGenerated
    /\ Len(report_input.full_report) = 2
    /\ \E k \in 1..Len(InputItems) : SpecCsvStatus(InputItems[k]) = "HEALTHY"
    /\ \E k \in 1..Len(InputItems) :
           "status" \in DOMAIN InputItems[k].item /\ InputItems[k].item.status \in {201, 300}
    /\ \E k \in 1..Len(InputItems) : "status" \notin DOMAIN InputItems[k].item

\* a field value with every double quote doubled
SpecEscaped(value) == Replace(value, <<Quote>>, <<Quote, Quote>>)

\* the row of an item with each of the four fields escaped and wrapped
SpecQuotedRow(e) ==
    LET name == IF "ResourceName" \in DOMAIN e.item THEN e.item.ResourceName
                ELSE <<"Unknown">>
        message == IF "message" \in DOMAIN e.item THEN e.item.message ELSE <<>>
    IN  <<Quote>> \o SpecEscaped(name) \o <<Quote, ",", Quote>>
            \o SpecEscaped(e.resource_type) \o <<Quote, ",", Quote>>
            \o <<SpecCsvStatus(e)>> \o <<Quote, ",", Quote>>
            \o SpecEscaped(message) \o <<Quote>>

\* C21: in every data row of the CSV every field (ResourceName, ResourceType,
\* Status, Message) is wrapped in double quotes and every double quote inside
\* a field value is doubled.
C21_CsvQuoting ==
    CsvGenerated =>
        csv_report =
            Join(<<SpecCsvHeader>> \o [k \in 1..Len(InputItems) |-> SpecQuotedRow(InputItems[k])])

----------------------------------------------------------------------------
\* The resolver and generate_enhanced_report called twice with the same
\* arguments, while the clock runs, the log level of the environment is
\* changed and Amazon Connect answers the stream discovery as it does then.

PurityDocuments ==
    {Str(<<CTRStreamRef>>), Str(<<ContactLensStreamRef>>), Str(PrefixFunction), Str(<<"F">>),
     List(<<Str(<<CTRStreamRef>>), Scalar("42")>>)}

PurityContexts ==
    {Context(a, Absent, Absent, d, Absent) : a \in {<<>>, <<"org">>}, d \in InstanceIdValues}

PurityReports == {<<>>} \cup {<<r>> : r \in ReportPool}

PurityInit ==
    /\ max_threads = 0
    /\ pc = "none"
    /\ submitted = 0
    /\ tstate = [i \in Tasks |-> "unsubmitted"]
    /\ outcome = [i \in Tasks |-> NoOutcome]
    /\ calls = [i \in Tasks |-> 0]
    /\ num_threads = 0
    /\ idle = 0
    /\ pending = {}
    /\ yieldq = <<>>
    /\ waiterq = <<>>
    /\ full_report = <<>>
    /\ errors = <<>>
    /\ RunIdle
    /\ clock = 0
    /\ debug \in BOOLEAN
    /\ first_result = <<>>
    /\ resolved = <<>>
    /\ option1 = <<>>
    /\ option2 = <<>>
    /\ enhanced_report = <<>>
    /\ csv_report = <<>>
    /\ \/ /\ call = "replace_placeholders"
          /\ data \in PurityDocuments
          /\ replacements \in PurityContexts
          /\ discovery \in DiscoveryOutcomes
          /\ report_call = "none"
          /\ report_input = <<>>
       \/ /\ report_call = "generate_enhanced_report"
          /\ \E reports \in PurityReports : \E errs \in ErrorLists :
                 report_input = [full_report |-> reports, errors |-> errs]
          /\ call = "none"
          /\ data = <<>>
          /\ replacements = <<>>
          /\ discovery = "none"

\* replace_placeholders(data, replacements) once more
ReplacePlaceholdersAgain ==
    /\ call = "replace_placeholders returned"
    /\ first_result' = resolved
    /\ resolved' = replace_placeholders(data, replacements)
    /\ call' = "replace_placeholders returned twice"
    /\ UNCHANGED <<option1, option2, data, replacements, discovery, clock, debug>>
    /\ UNCHANGED <<vars, report_vars, run_vars>>

\* generate_enhanced_report with the same arguments once more
GenerateEnhancedReportAgain ==
    /\ report_call = "generate_csv_report"
    /\ first_result' = enhanced_report
    /\ enhanced_report' =
           generate_enhanced_report(HealthInput(DefaultMaxThreads), report_input.full_report,
                                    HealthInput(DefaultMaxThreads).execution_id,
                                    execution_time, report_input.errors)
    /\ report_call' = "generate_enhanced_report returned twice"
    /\ UNCHANGED <<report_input, csv_report, clock, debug>>
    /\ UNCHANGED <<vars, resolver_vars, run_vars>>

\* Amazon Connect (list_instance_storage_configs) answers differently from now on.
CollaboratorResponds ==
    /\ call \in {"replace_placeholders", "replace_placeholders returned"}
    /\ discovery' \in DiscoveryOutcomes \ {discovery}
    /\ UNCHANGED <<call, option1, option2, data, replacements, resolved>>
    /\ UNCHANGED <<vars, report_vars, run_vars, env_vars>>

\* Time passes.
Tick ==
    /\ clock < MaxClock
    /\ clock' = clock + 1
    /\ UNCHANGED <<debug, first_result>>
    /\ UNCHANGED <<vars, resolver_vars, report_vars, run_vars>>

\* LOG_LEVEL of the environment is set or unset.
SetLogLevel ==
    /\ debug' = ~debug
    /\ UNCHANGED <<clock, first_result>>
    /\ UNCHANGED <<vars, resolver_vars, report_vars, run_vars>>

PurityNext ==
    \/ ReplacePlaceholders
    \/ ReplacePlaceholdersAgain
    \/ GenerateEnhancedReport
    \/ GenerateEnhancedReportAgain
    \/ CollaboratorResponds
    \/ Tick
    \/ SetLogLevel

PuritySpec ==
    PurityInit /\ [][PurityNext]_<<vars, resolver_vars, report_vars, run_vars, env_vars>>

\* C23: two calls of replace_placeholders with equal (document, context), and
\* two calls of generate_enhanced_report with equal inputs, return equal
\* outputs, whatever the collaborator answers, the environment holds and the
\* clock reads.
C23_PureFunctions ==
    /\ call = "replace_placeholders returned twice" => resolved = first_result
    /\ report_call = "generate_enhanced_report returned twice" =>
           enhanced_report = first_result

----------------------------------------------------------------------------
\* lambda_handler, lines 140-148: a fresh MultiThreadedValidator runs once and
\* generate_enhanced_report is given what it returned and validator.errors.

GenerateReportOfRun ==
    /\ pc = "returned"
    /\ enhanced_report' =
           generate_enhanced_report(HealthInput(max_threads), full_report,
                                    HealthInput(max_threads).execution_id,
                                    execution_time, errors)
    /\ pc' = "reported"
    /\ UNCHANGED <<max_threads, submitted, tstate, outcome, calls, num_threads, idle,
                   pending, yieldq, waiterq, full_report, errors>>
    /\ UNCHANGED <<report_call, report_input, csv_report>>
    /\ UNCHANGED <<resolver_vars, run_vars, env_vars>>

HandlerNext == Next \/ GenerateReportOfRun

HandlerSpec == Init /\ [][HandlerNext]_<<vars, report_vars, run_vars>>

\* C27: for the report list and the error list of one run of a fresh
\* validator, summary.error_count = summary.unhealthy + summary.warnings,
\* overall_status is "HEALTHY" exactly when the error list is empty, and any
\* task that raised makes overall_status "UNHEALTHY".
C27_ErrorsMatchSummary ==
    pc = "reported" =>
        LET sum == enhanced_report.summary
        IN  /\ sum.error_count = sum.unhealthy + sum.warnings
            /\ sum.overall_status = "HEALTHY" <=> errors = <<>>
            /\ (\E i \in Tasks : Raised(i)) => sum.overall_status = "UNHEALTHY"

\* a run with a task that raised and a task that returned a warning item
C27_Witness ==
    /\ pc = "reported"
    /\ \E i \in Tasks : Raised(i)
    /\ \E i \in Tasks : HasStatus(i, 300)
    /\ enhanced_report.summary.warnings >= 1
    /\ enhanced_report.summary.error_count >= 3
    /\ enhanced_report.summary.overall_status = "UNHEALTHY"

====
